---- MODULE Spec2Model ----
(***************************************************************************)
(* Verification pipeline of the factcheck service:                         *)
(*   VerificationCache      (verification/cache.py, over cachetools'       *)
(*                           TTLCache)                                     *)
(*   GoogleFactCheckClient  (verification/google_factcheck.py)             *)
(*   VerificationService    (verification/service.py)                      *)
(* Every verify call is a coroutine on one asyncio event loop: the code    *)
(* between two awaits runs atomically, and each action below is one such   *)
(* run.                                                                    *)
(***************************************************************************)
EXTENDS Integers, Sequences, FiniteSets, TLC

(***************************************************************************)
(* Bounds of the model.                                                    *)
(***************************************************************************)
NumCalls == 2       \* verify coroutines that may be in flight together
MaxCalls == 2       \* verify calls started in one behaviour
MaxTime == 2        \* last value of the clock
TTL == 2            \* the cache's ttl, in clock units
MaxSize == 1        \* the cache's maxsize
MaxSources == 3     \* sources in one list given to _aggregate_results
MaxTokens == 5      \* tokens in one text given to extract
MaxExtracts == 2    \* extract calls on one text
MaxCacheSize == 2   \* largest maxsize of a cache that is driven on its own

(***************************************************************************)
(* Program constants.                                                      *)
(***************************************************************************)
MAX_RETRIES == 3
INITIAL_BACKOFF == 1
MIN_SENTENCE == 10
MAX_SENTENCE == 500

Procs == 1..NumCalls

(***************************************************************************)
(* Claim texts are sequences of characters.                                *)
(***************************************************************************)
Texts == { <<"a">>, <<" ", "A">>, <<"b">> }

IsSpace(ch) == ch \in {" ", "\t", "\n"}

LowerChar(ch) ==
  CASE ch = "A" -> "a"
    [] ch = "B" -> "b"
    [] OTHER -> ch

RECURSIVE LStrip(_)
LStrip(s) ==
  IF s = <<>> THEN <<>>
  ELSE IF IsSpace(Head(s)) THEN LStrip(Tail(s)) ELSE s

RECURSIVE RStrip(_)
RStrip(s) ==
  IF s = <<>> THEN <<>>
  ELSE IF IsSpace(s[Len(s)]) THEN RStrip(SubSeq(s, 1, Len(s) - 1)) ELSE s

Strip(s) == RStrip(LStrip(s))

Lower(s) == [i \in 1..Len(s) |-> LowerChar(s[i])]

\* sha256(...).hexdigest()[:16]: a digest of the normalized text; the model
\* keeps the digest injective (collisions are out of the model).
Digest(s) == <<"sha256">> \o s

\* a key made of the lower-cased text without trimming it
_make_key_untrimmed(claim_text) == Digest(Lower(claim_text))

_make_key(claim_text) == Digest(Lower(Strip(claim_text)))

Keys == { _make_key(t) : t \in Texts }

(***************************************************************************)
(* Ratings are sequences of tokens: maximal words and the separator        *)
(* characters between them.                                                *)
(***************************************************************************)
LowerWord(w) ==
  CASE w = "True" -> "true"
    [] w = "False" -> "false"
    [] w = "Disputed" -> "disputed"
    [] w = "Unverified" -> "unverified"
    [] w = "Verified" -> "verified"
    [] w = "Not" -> "not"
    [] w = "Never" -> "never"
    [] w = "Un" -> "un"
    [] w = "Mostly" -> "mostly"
    [] w = "Unknown" -> "unknown"
    [] OTHER -> w

LowerRating(r) == [i \in 1..Len(r) |-> LowerWord(r[i])]

\* the word w ends with the characters "not" / "never" / "un"
EndsWithNot(w) == w \in {"not", "knot"}
EndsWithNever(w) == w \in {"never"}
EndsWithUn(w) == w \in {"un", "run"}
IsWhitespace(tok) == tok \in {" ", "\t"}

\* re.search(r"\bw\b", rating): some maximal word of the rating is w
HasWord(r, w) == \E i \in 1..Len(r) : r[i] = w

\* re.search of a phrase of words separated by single spaces
HasPhrase(r, ws) ==
  \E i \in 1..Len(r) :
    /\ i + 2 * (Len(ws) - 1) <= Len(r)
    /\ \A j \in 1..Len(ws) : r[i + 2 * (j - 1)] = ws[j]
    /\ \A j \in 1..(Len(ws) - 1) : r[i + 2 * j - 1] = " "

\* \bverified\b without the lookbehinds
HasVerified_plain(r) == \E i \in 1..Len(r) : r[i] = "verified"

\* (?<!not\s)(?<!never\s)(?<!un)(?<!un-)\bverified\b
\* (?<!un) never excludes anything: between "un" and "verified" there is no \b
HasVerified(r) ==
  \E i \in 1..Len(r) :
    /\ r[i] = "verified"
    /\ ~(i > 2 /\ IsWhitespace(r[i-1]) /\ EndsWithNot(r[i-2]))
    /\ ~(i > 2 /\ IsWhitespace(r[i-1]) /\ EndsWithNever(r[i-2]))
    /\ ~(i > 2 /\ r[i-1] = "-" /\ EndsWithUn(r[i-2]))

TRUE_PATTERNS(r) ==
  \/ HasWord(r, "true")
  \/ HasWord(r, "correct")
  \/ HasWord(r, "accurate")
  \/ HasPhrase(r, <<"mostly", "true">>)
  \/ HasVerified(r)

\* a disputing list that takes "unverified" in
FALSE_PATTERNS_unverified(r) ==
  \/ HasWord(r, "false")
  \/ HasWord(r, "incorrect")
  \/ HasWord(r, "inaccurate")
  \/ HasPhrase(r, <<"mostly", "false">>)
  \/ HasPhrase(r, <<"pants", "on", "fire">>)
  \/ HasWord(r, "disputed")
  \/ HasWord(r, "misleading")
  \/ HasWord(r, "unverified")

FALSE_PATTERNS(r) ==
  \/ HasWord(r, "false")
  \/ HasWord(r, "incorrect")
  \/ HasWord(r, "inaccurate")
  \/ HasPhrase(r, <<"mostly", "false">>)
  \/ HasPhrase(r, <<"pants", "on", "fire">>)
  \/ HasWord(r, "disputed")
  \/ HasWord(r, "misleading")

RECURSIVE true_count(_)
true_count(sources) ==
  IF sources = <<>> THEN 0
  ELSE (IF TRUE_PATTERNS(LowerRating(Head(sources))) THEN 1 ELSE 0)
       + true_count(Tail(sources))

RECURSIVE false_count(_)
false_count(sources) ==
  IF sources = <<>> THEN 0
  ELSE (IF /\ ~TRUE_PATTERNS(LowerRating(Head(sources)))
           /\ FALSE_PATTERNS(LowerRating(Head(sources))) THEN 1 ELSE 0)
       + false_count(Tail(sources))

\* the sum in place of the larger
Max_sum(a, b) == a + b

Max(a, b) == IF a >= b THEN a ELSE b

\* an aggregation without the branch for equal counts
_aggregate_results_no_tie(sources) ==
  LET tc == true_count(sources)
      fc == false_count(sources)
  IN  IF sources = <<>> THEN [status |-> "unverified", confidence |-> <<0, 10>>]
      ELSE IF tc + fc = 0 THEN [status |-> "unverified", confidence |-> <<3, 10>>]
      ELSE IF tc > fc THEN [status |-> "verified", confidence |-> <<Max(tc, fc), Len(sources)>>]
      ELSE IF fc > tc THEN [status |-> "disputed", confidence |-> <<Max(tc, fc), Len(sources)>>]
      ELSE [status |-> "unverified", confidence |-> <<Max(tc, fc), Len(sources)>>]

\* an aggregation that tests the disputing patterns of every rating, the
\* affirming ones included
_aggregate_results_both_counted(sources) ==
  LET tc == true_count(sources)
      fc == Cardinality({ i \in 1..Len(sources) : FALSE_PATTERNS(LowerRating(sources[i])) })
  IN  IF sources = <<>> THEN [status |-> "unverified", confidence |-> <<0, 10>>]
      ELSE IF tc + fc = 0 THEN [status |-> "unverified", confidence |-> <<3, 10>>]
      ELSE IF tc > fc THEN [status |-> "verified", confidence |-> <<Max(tc, fc), Len(sources)>>]
      ELSE IF fc > tc THEN [status |-> "disputed", confidence |-> <<Max(tc, fc), Len(sources)>>]
      ELSE [status |-> "unverified", confidence |-> <<5, 10>>]

\* A confidence is the fraction <<numerator, denominator>>.
_aggregate_results(sources) ==
  LET tc == true_count(sources)
      fc == false_count(sources)
  IN  IF sources = <<>> THEN [status |-> "unverified", confidence |-> <<0, 10>>]
      ELSE IF tc + fc = 0 THEN [status |-> "unverified", confidence |-> <<3, 10>>]
      ELSE IF tc > fc THEN [status |-> "verified", confidence |-> <<Max(tc, fc), Len(sources)>>]
      ELSE IF fc > tc THEN [status |-> "disputed", confidence |-> <<Max(tc, fc), Len(sources)>>]
      ELSE [status |-> "unverified", confidence |-> <<5, 10>>]

(***************************************************************************)
(* API responses.  A JSON body is the sequence of its claims, a claim the  *)
(* sequence of its claimReview entries, a review its textualRating (or     *)
(* Missing when the field is absent).                                      *)
(***************************************************************************)
Missing == <<"<absent>">>

Bodies == {
  <<>>,
  << << <<"True">>, Missing >>, << <<"Mostly", " ", "True">> >> >>
}

RECURSIVE Flatten(_)
Flatten(claims) ==
  IF claims = <<>> THEN <<>> ELSE Head(claims) \o Flatten(Tail(claims))

\* review.get("textualRating", "Unknown"), one FactCheckResult per review
_parse_response(data) ==
  LET reviews == Flatten(data)
  IN  [i \in 1..Len(reviews) |->
         IF reviews[i] = Missing THEN <<"Unknown">> ELSE reviews[i]]

(***************************************************************************)
(* VerificationResult and errors.                                          *)
(***************************************************************************)
NoResult == [status |-> "none", sources |-> <<>>, confidence |-> <<0, 10>>, verified_at |-> 0]

VerificationResult(status, sources, confidence, verified_at) ==
  [status |-> status, sources |-> sources, confidence |-> confidence,
   verified_at |-> verified_at]

_create_error_result(time) == VerificationResult("error", <<>>, <<0, 10>>, time)

\* the result verify builds from the client's answer (service.py 65-84)
FreshResult(fact_checks, time) ==
  LET agg == _aggregate_results(fact_checks)
  IN  VerificationResult(agg.status, fact_checks, agg.confidence, time)

\* a hit that stamps the result with the time of the call
HitResult_restamped(cached, time) == [cached EXCEPT !.verified_at = time]

\* "return cached" (service.py 54-56)
HitResult(cached, time) == cached

NoError == [kind |-> "none", attempt |-> 0]

(***************************************************************************)
(* VerificationCache over cachetools.TTLCache: the entries in the order of *)
(* TTLCache's links (least recently used first), each with its expiry.     *)
(***************************************************************************)
RECURSIVE IndexOf(_, _)
IndexOf(c, k) ==
  IF c = <<>> THEN 0
  ELSE IF c[Len(c)].key = k THEN Len(c)
  ELSE IndexOf(SubSeq(c, 1, Len(c) - 1), k)

RemoveAt(c, i) == SubSeq(c, 1, i - 1) \o SubSeq(c, i + 1, Len(c))

\* an entry that expires one unit early
ExpiresAt_early(time) == time + TTL - 1

\* the link's expires: timer() + ttl at the time of __setitem__
ExpiresAt(time) == time + TTL

\* TTLCache.expire(time): drop every entry with expires <= time
Expire(c, time) == SelectSeq(c, LAMBDA e : time < e.expires)

\* TTLCache.__contains__: the key has a link and the link has not expired
Contains(c, k, time) == IndexOf(c, k) > 0 /\ time < c[IndexOf(c, k)].expires

\* a lookup under the digest of the text as given, not of its normal form
CacheGet_rawkey(c, claim_text, time) ==
  LET k == Digest(claim_text)
  IN  IF Contains(c, k, time) THEN c[IndexOf(c, k)].value ELSE NoResult

\* VerificationCache.get: the stored result, NoResult for None
CacheGet(c, claim_text, time) ==
  LET k == _make_key(claim_text)
  IN  IF Contains(c, k, time) THEN c[IndexOf(c, k)].value ELSE NoResult

\* a get that renews the expiry of the entry it finds
CacheAfterGet_sliding(c, claim_text, time) ==
  LET k == _make_key(claim_text)
      i == IndexOf(c, k)
  IN  IF Contains(c, k, time)
      THEN Append(RemoveAt(c, i), [c[i] EXCEPT !.expires = ExpiresAt(time)])
      ELSE c

\* the cache after get: TTLCache.__getitem__ moves a live key's link to the
\* end of the link order and changes nothing else
CacheAfterGet(c, claim_text, time) ==
  LET k == _make_key(claim_text)
      i == IndexOf(c, k)
  IN  IF Contains(c, k, time) THEN Append(RemoveAt(c, i), c[i]) ELSE c

VARIABLE
  maxsize       \* VerificationCache._cache.maxsize

\* Cache.__setitem__'s loop "while currsize + size > maxsize: popitem()";
\* TTLCache.popitem removes the first key of the link order
RECURSIVE PopUntilFits(_, _)
PopUntilFits(c, time) ==
  IF Len(c) + 1 > maxsize /\ c # <<>> THEN PopUntilFits(Tail(Expire(c, time)), time)
  ELSE c

\* VerificationCache.clear: TTLCache.clear removes every entry
CacheClear(c) == <<>>

\* a set that leaves the live entry of a key that has one
CacheSet_keep_existing(c, claim_text, result, time) ==
  LET k == _make_key(claim_text)
      live == Expire(c, time)
  IN  IF IndexOf(live, k) > 0 THEN live
      ELSE Append(IF Len(live) + 1 > maxsize THEN Tail(live) ELSE live,
                  [key |-> k, value |-> result, expires |-> ExpiresAt(time)])

\* a set that makes room by removing the most recently used entry
CacheSet_evict_newest(c, claim_text, result, time) ==
  LET k == _make_key(claim_text)
      live == Expire(c, time)
      i == IndexOf(live, k)
      rest == IF i > 0 THEN RemoveAt(live, i)
              ELSE IF Len(live) + 1 > maxsize THEN SubSeq(live, 1, maxsize - 1)
              ELSE live
  IN  Append(rest, [key |-> k, value |-> result, expires |-> ExpiresAt(time)])

\* VerificationCache.set: TTLCache.__setitem__ expires, makes room for a new
\* key, stores the value and gives the key a fresh expiry at the end of the
\* link order
CacheSet(c, claim_text, result, time) ==
  LET k == _make_key(claim_text)
      live == Expire(c, time)
      i == IndexOf(live, k)
      rest == IF i > 0 THEN RemoveAt(live, i) ELSE PopUntilFits(live, time)
  IN  Append(rest, [key |-> k, value |-> result, expires |-> ExpiresAt(time)])

\* an except branch that stores the error result
CacheAfterError_stored(c, claim_text, time) ==
  CacheSet(c, claim_text, _create_error_result(time), time)

\* what verify's except branch does to the cache: nothing (service.py 61-63)
CacheAfterError(c, claim_text, time) == c

\* an abandoned call that leaves an entry for its text behind
CacheAfterCancel_written(c, claim_text, time) ==
  CacheSet(c, claim_text, _create_error_result(time), time)

\* what a call does to the cache when CancelledError leaves verify at
\* "await self.google_client.search(claim_text)": nothing, cache.set is not
\* reached (service.py 60, 87)
CacheAfterCancel(c, claim_text, time) == c

\* the entries of the cache, whatever their order
Entries(c) == { c[i] : i \in 1..Len(c) }

(***************************************************************************)
(* GoogleFactCheckClient.search, one request outcome at a time.            *)
(***************************************************************************)
\* what one "await client.get" plus the handling of its response can end in
Kinds == {"429", "5xx", "4xx", "transport", "badjson", "malformed", "ok"}

\* a loop that retries every HTTP error status
Retryable_any_status(kind) == kind \in {"429", "5xx", "4xx", "transport", "badjson"}

\* the branches of the retry loop that sleep and continue: status 429
\* (lines 75-88), HTTPStatusError with status >= 500 (101-111), RequestError
\* and DecodingError (116-123)
Retryable(kind) == kind \in {"429", "5xx", "transport", "badjson"}

\* a 429 branch that sleeps without recording the error
SetsLastError_not429(kind) == kind \in {"5xx", "4xx", "transport", "badjson"}

\* the branches that assign last_error: every one but a body of valid JSON
\* of the wrong shape, whose AttributeError no except clause of search names
SetsLastError(kind) == kind \in {"429", "5xx", "4xx", "transport", "badjson"}

\* a backoff that grows by one second
NextBackoff_linear(b) == b + 1

\* backoff *= 2
NextBackoff(b) == b * 2

\* a loop with one iteration too many
HasNextAttempt_extra(a) == a + 1 <= MAX_RETRIES

\* range(self.MAX_RETRIES): is there an iteration after the one with index a
HasNextAttempt(a) == a + 1 < MAX_RETRIES

\* an except clause that names the httpx errors only
Catches_httpx_only(kind) == kind \in {"429", "5xx", "4xx", "transport", "badjson"}

\* verify's "except Exception": every error search raises is an Exception;
\* asyncio.CancelledError is a BaseException and is not caught
Catches(kind) == kind # "cancelled"

(***************************************************************************)
(* PatternExtractor (extractors/patterns.py).  A text is a sequence of     *)
(* tokens, each a run of characters: a space, a newline, the words "in",   *)
(* "2024" and "outperforms", and a filler word of 488 letters x.  Offsets  *)
(* are character offsets from 0, as in Python.                             *)
(***************************************************************************)
Filler == "x*488"

Tokens == {" ", "\n", ".", "in", "2024", "outperforms", Filler}

TokLen(tok) ==
  CASE tok = " " -> 1
    [] tok = "\n" -> 1
    [] tok = "." -> 1
    [] tok = "in" -> 2
    [] tok = "2024" -> 4
    [] tok = "outperforms" -> 11
    [] tok = Filler -> 488

\* \s and \w
IsSpaceTok(tok) == tok \in {" ", "\n"}
IsWordTok(tok) == tok \in {"in", "2024", "outperforms", Filler}

\* sentence_endings = ".!?\n"
IsEnding(tok) == tok \in {".", "\n"}

RECURSIVE CharLen(_)
CharLen(toks) == IF toks = <<>> THEN 0 ELSE TokLen(Head(toks)) + CharLen(Tail(toks))

\* the offset at which token i starts; token Len + 1 starts at len(text)
CharStart(txt, i) == CharLen(SubSeq(txt, 1, i - 1))

\* the token that starts at offset pos
TokenAt(txt, pos) == CHOOSE i \in 1..(Len(txt) + 1) : CharStart(txt, i) = pos

\* \b before token i and after token j
BoundaryBefore(txt, i) == i = 1 \/ ~IsWordTok(txt[i - 1])
BoundaryAfter(txt, j) == j = Len(txt) \/ ~IsWordTok(txt[j + 1])

\* the last token of the run of \s tokens that starts at i (i - 1 if none)
RECURSIVE SpaceRunEnd(_, _)
SpaceRunEnd(txt, i) ==
  IF i <= Len(txt) /\ IsSpaceTok(txt[i]) THEN SpaceRunEnd(txt, i + 1) ELSE i - 1

PatternMatch(start, end, claim_type) ==
  [start |-> start, end |-> end, claim_type |-> claim_type]

\* TEMPORAL, r"\b(?:in|since|from|during|by)\s+(\d{4})\b": the end of the
\* match that starts at token i, 0 if there is none
YearMatchEnd(txt, i) ==
  LET j == SpaceRunEnd(txt, i + 1) + 1
  IN  IF /\ txt[i] = "in"
         /\ BoundaryBefore(txt, i)
         /\ j > i + 1
         /\ j <= Len(txt)
         /\ txt[j] = "2024"
         /\ BoundaryAfter(txt, j)
      THEN j ELSE 0

\* COMPARATIVE, r"\b(?:outperforms?|exceeds?|surpasses?)\b"
OutperformMatchEnd(txt, i) ==
  IF txt[i] = "outperforms" /\ BoundaryBefore(txt, i) /\ BoundaryAfter(txt, i)
  THEN i ELSE 0

\* pattern.finditer(text) for one rule: its matches from token i on, in the
\* order of the text
RECURSIVE FindIter(_, _, _)
FindIter(txt, rule, i) ==
  IF i > Len(txt) THEN <<>>
  ELSE LET j == IF rule = "temporal" THEN YearMatchEnd(txt, i)
                 ELSE OutperformMatchEnd(txt, i)
       IN  IF j = 0 THEN FindIter(txt, rule, i + 1)
           ELSE <<PatternMatch(CharStart(txt, i), CharStart(txt, j + 1), rule)>>
                \o FindIter(txt, rule, j + 1)

\* the rules of PATTERNS that can match a text of these tokens, in the order
\* of the dict: TEMPORAL comes before COMPARATIVE
PATTERNS == <<"temporal", "comparative">>

\* the matches gathered with the COMPARATIVE rules scanned first
AllMatches_comparative_first(txt) ==
  FindIter(txt, PATTERNS[2], 1) \o FindIter(txt, PATTERNS[1], 1)

\* extract's loops over PATTERNS (lines 79-91)
AllMatches(txt) == FindIter(txt, PATTERNS[1], 1) \o FindIter(txt, PATTERNS[2], 1)

RECURSIVE FindStartTok(_, _)
FindStartTok(txt, i) ==
  IF i = 1 THEN 1
  ELSE IF IsEnding(txt[i - 1]) THEN i
  ELSE FindStartTok(txt, i - 1)

\* a sentence taken to start where the match starts
_find_sentence_start_at_match(txt, pos) == pos

_find_sentence_start(txt, pos) == CharStart(txt, FindStartTok(txt, TokenAt(txt, pos)))

RECURSIVE FindEndTok(_, _)
FindEndTok(txt, i) ==
  IF i > Len(txt) THEN Len(txt) + 1
  ELSE IF IsEnding(txt[i]) THEN i + 1
  ELSE FindEndTok(txt, i + 1)

_find_sentence_end(txt, pos) == CharStart(txt, FindEndTok(txt, TokenAt(txt, pos)))

RECURSIVE LStripToks(_)
LStripToks(toks) ==
  IF toks = <<>> THEN <<>>
  ELSE IF IsSpaceTok(Head(toks)) THEN LStripToks(Tail(toks)) ELSE toks

RECURSIVE RStripToks(_)
RStripToks(toks) ==
  IF toks = <<>> THEN <<>>
  ELSE IF IsSpaceTok(toks[Len(toks)]) THEN RStripToks(SubSeq(toks, 1, Len(toks) - 1))
  ELSE toks

\* text[sentence_start:sentence_end].strip()
Sentence(txt, sentence_start, sentence_end) ==
  RStripToks(LStripToks(SubSeq(txt, TokenAt(txt, sentence_start),
                               TokenAt(txt, sentence_end) - 1)))

BASE_CONFIDENCE == <<6, 10>>

\* str(uuid.uuid4()): a value no other claim has, here the number of the
\* extract call and the number of the match within it
Uuid4(call, k) == <<call, k>>

\* match is not a field of the code's Claim: it remembers the match the claim
\* was made from
Claim(id, sentence, claim_type, start, end, match) ==
  [id |-> id, text |-> sentence, type |-> claim_type, confidence |-> BASE_CONFIDENCE,
   source_offset |-> [start |-> start, end |-> end], match |-> match]

\* a set that forgets what it has seen
Seen_never(sentence, seen_sentences) == FALSE

\* "if sentence in seen_sentences"
Seen(sentence, seen_sentences) == sentence \in seen_sentences

\* the length test of a sentence
TooShortOrLong(sentence) ==
  CharLen(sentence) < MIN_SENTENCE \/ CharLen(sentence) > MAX_SENTENCE

\* the loop of _matches_to_claims from match k on
RECURSIVE ClaimsFrom(_, _, _, _, _)
ClaimsFrom(txt, matches, k, seen_sentences, call) ==
  IF k > Len(matches) THEN <<>>
  ELSE LET match == matches[k]
           sentence_start == _find_sentence_start(txt, match.start)
           sentence_end == _find_sentence_end(txt, match.end)
           sentence == Sentence(txt, sentence_start, sentence_end)
       IN  IF Seen(sentence, seen_sentences)
           THEN ClaimsFrom(txt, matches, k + 1, seen_sentences, call)
           ELSE IF TooShortOrLong(sentence)
           THEN ClaimsFrom(txt, matches, k + 1, seen_sentences \cup {sentence}, call)
           ELSE <<Claim(Uuid4(call, k), sentence, match.claim_type,
                        sentence_start, sentence_end, match)>>
                \o ClaimsFrom(txt, matches, k + 1, seen_sentences \cup {sentence}, call)

\* a seen_sentences set that outlives the call
_matches_to_claims_seen_kept(txt, matches, call) ==
  IF call > 1 THEN <<>> ELSE ClaimsFrom(txt, matches, 1, {}, call)

_matches_to_claims(txt, matches, call) == ClaimsFrom(txt, matches, 1, {}, call)

Min(a, b) == IF a <= b THEN a ELSE b

\* an overlap test that asks for the whole of the shorter span
_claims_overlap_whole(claim1, claim2) ==
  LET overlap_start == Max(claim1.source_offset.start, claim2.source_offset.start)
      overlap_end == Min(claim1.source_offset.end, claim2.source_offset.end)
      len1 == claim1.source_offset.end - claim1.source_offset.start
      len2 == claim2.source_offset.end - claim2.source_offset.start
  IN  IF overlap_end <= overlap_start THEN FALSE
      ELSE (overlap_end - overlap_start) > Min(len1, len2)

\* overlap_len > 0.5 * min(len1, len2); source_offset is always set here
_claims_overlap(claim1, claim2) ==
  LET overlap_start == Max(claim1.source_offset.start, claim2.source_offset.start)
      overlap_end == Min(claim1.source_offset.end, claim2.source_offset.end)
      len1 == claim1.source_offset.end - claim1.source_offset.start
      len2 == claim2.source_offset.end - claim2.source_offset.start
  IN  IF overlap_end <= overlap_start THEN FALSE
      ELSE 2 * (overlap_end - overlap_start) > Min(len1, len2)

\* sorted(claims, key=start): a stable sort, by insertion
RECURSIVE InsertByStart(_, _)
InsertByStart(sorted_claims, claim) ==
  IF sorted_claims = <<>> THEN <<claim>>
  ELSE IF sorted_claims[Len(sorted_claims)].source_offset.start <= claim.source_offset.start
  THEN Append(sorted_claims, claim)
  ELSE Append(InsertByStart(SubSeq(sorted_claims, 1, Len(sorted_claims) - 1), claim),
              sorted_claims[Len(sorted_claims)])

RECURSIVE SortedByStart(_)
SortedByStart(claims) ==
  IF claims = <<>> THEN <<>>
  ELSE InsertByStart(SortedByStart(SubSeq(claims, 1, Len(claims) - 1)), claims[Len(claims)])

\* the loop of _deduplicate_claims from sorted claim k on
RECURSIVE KeepFrom(_, _, _)
KeepFrom(sorted_claims, k, result) ==
  IF k > Len(sorted_claims) THEN result
  ELSE IF \E i \in 1..Len(result) : _claims_overlap(sorted_claims[k], result[i])
  THEN KeepFrom(sorted_claims, k + 1, result)
  ELSE KeepFrom(sorted_claims, k + 1, Append(result, sorted_claims[k]))

\* a selection that goes through the claims from the last start to the first
_deduplicate_claims_descending(claims) ==
  KeepFrom([k \in 1..Len(claims) |-> SortedByStart(claims)[Len(claims) + 1 - k]], 1, <<>>)

_deduplicate_claims(claims) == KeepFrom(SortedByStart(claims), 1, <<>>)

\* PatternExtractor.extract, as its call-th call
extract(txt, call) ==
  _deduplicate_claims(_matches_to_claims(txt, AllMatches(txt), call))

\* a search without an API key answers nothing
NoKey_never(key) == FALSE

\* "if not self.api_key" (google_factcheck.py 57)
NoKey(key) == ~key

VARIABLES
  now,          \* the clock (time.monotonic() and datetime.now()), in units
                \* coarse enough that a backoff sleep may end within one unit
  api_key,      \* GoogleFactCheckClient.api_key is set (TRUE) or empty
  cache,        \* VerificationCache._cache
  calls,        \* verify calls started so far
  pc,           \* where each verify coroutine is: idle, awaitGet, awaitSleep
  text,         \* its claim_text
  attempt,      \* search's loop variable
  backoff,      \* search's backoff
  last_error,   \* search's last_error
  gets,         \* history: client.get calls made by the running search call
  waits,        \* history: the delays it passed to asyncio.sleep
  outcome,      \* history: how its latest attempt ended
  sawFail,      \* history: a call for another key failed while this one ran
  info,         \* history: what StartInfo noted when the call started
  last,         \* history: the verify call that ended in the latest step
  first,        \* history: the first verify call that returned a result
  firstStale,   \* history: a cache write replaced or evicted first's result
                \* before its TTL was over
  firstSearch,  \* history: the first search call: its text and its start
  lastSearch,   \* history: the search call that started in the latest step;
                \* again: it is for firstSearch's text, less than a TTL later
  agg,          \* one call of _aggregate_results: its sources and its result
  ext,          \* the calls of PatternExtractor.extract on one text
  cop           \* history: the latest operation on a cache driven on its own

clientVars == <<attempt, backoff, last_error>>
callVars == <<gets, waits, outcome, sawFail, info>>
histVars == <<last, first, firstStale, firstSearch, lastSearch>>
serviceVars == <<now, api_key, cache, calls, pc, text, clientVars, callVars, histVars>>
pureVars == <<agg, ext, maxsize, cop>>
vars == <<serviceVars, pureVars>>

\* path: hit, fresh, error (the three ways verify returns) or propagated
\* stored: what cache.get answered when the call started
\* searched: the call called search; afterFirst, keptFirst: see StartInfo
\* wrote: the call's last step changed the cache's entries; touched: it
\* changed the cache at all; entryBefore, entry: what the cache answered for
\* the call's text right before and right after that step
\* overlap: a call for another key was in flight when this one ended
NoCall ==
  [text |-> <<>>, path |-> "none", ret |-> NoResult, outcome |-> "none",
   error |-> NoError, body |-> <<>>, gets |-> 0, waits |-> <<>>,
   stored |-> NoResult, searched |-> FALSE, afterFirst |-> FALSE,
   keptFirst |-> FALSE, sawFail |-> FALSE, overlap |-> FALSE,
   wrote |-> FALSE, touched |-> FALSE,
   entryBefore |-> NoResult, entry |-> NoResult, at |-> 0]

NoSearch == [text |-> <<>>, at |-> -1, again |-> FALSE]

NoInfo == [stored |-> NoResult, afterFirst |-> FALSE, keptFirst |-> FALSE]

\* no source list has been aggregated, no text has been given to extract
NoAggregate == [sources |-> <<>>, done |-> FALSE, status |-> "none", confidence |-> <<0, 10>>]

NoExtract == [text |-> <<>>, calls |-> 0, claims |-> <<>>, previous |-> <<>>]

\* no operation has been made on the cache since the clock last moved
NoOp == [op |-> "none", text |-> <<>>, ret |-> NoResult, before |-> <<>>]

\* the service after construction, no call made
Idle ==
  /\ now = 0
  /\ cache = <<>>
  /\ calls = 0
  /\ pc = [p \in Procs |-> "idle"]
  /\ text = [p \in Procs |-> <<>>]
  /\ attempt = [p \in Procs |-> 0]
  /\ backoff = [p \in Procs |-> INITIAL_BACKOFF]
  /\ last_error = [p \in Procs |-> NoError]
  /\ gets = [p \in Procs |-> 0]
  /\ waits = [p \in Procs |-> <<>>]
  /\ outcome = [p \in Procs |-> "none"]
  /\ sawFail = [p \in Procs |-> FALSE]
  /\ info = [p \in Procs |-> NoInfo]
  /\ last = NoCall
  /\ first = NoCall
  /\ firstStale = FALSE
  /\ firstSearch = NoSearch
  /\ lastSearch = NoSearch

Init ==
  /\ api_key \in BOOLEAN
  /\ Idle
  /\ agg = NoAggregate
  /\ ext = NoExtract
  /\ maxsize = MaxSize
  /\ cop = NoOp

InFlight(p) == pc[p] \in {"awaitGet", "awaitSleep"}

\* a call can start in a free coroutine slot; the slots are interchangeable
\* and a new call takes the lowest free one
CanStart(p) ==
  /\ calls < MaxCalls
  /\ ~InFlight(p)
  /\ \A q \in Procs : q < p => InFlight(q)

\* what is remembered of a call for text t from its start:
\* afterFirst: it starts after the first call returned, for the same key and
\*   less than a TTL after that result's verified_at;
\* keptFirst: moreover that result is no error, and no cache write has
\*   replaced or evicted it
StartInfo(t) ==
  LET aft == /\ first.path # "none"
             /\ _make_key(first.text) = _make_key(t)
             /\ now < first.ret.verified_at + TTL
  IN  [stored |-> CacheGet(cache, t, now),
       afterFirst |-> aft,
       keptFirst |-> aft /\ first.path # "error" /\ ~firstStale]

\* the search call is noted for the key
SearchHist(t) ==
  /\ firstSearch' = IF firstSearch = NoSearch
                    THEN [text |-> t, at |-> now, again |-> FALSE]
                    ELSE firstSearch
  /\ lastSearch' = [text |-> t, at |-> now,
                    again |-> /\ firstSearch # NoSearch
                              /\ firstSearch.text = t
                              /\ now < firstSearch.at + TTL]

\* the locals of the call end with it
Release(p) ==
  /\ pc' = [pc EXCEPT ![p] = "idle"]
  /\ text' = [text EXCEPT ![p] = <<>>]
  /\ attempt' = [attempt EXCEPT ![p] = 0]
  /\ backoff' = [backoff EXCEPT ![p] = INITIAL_BACKOFF]
  /\ last_error' = [last_error EXCEPT ![p] = NoError]
  /\ gets' = [gets EXCEPT ![p] = 0]
  /\ waits' = [waits EXCEPT ![p] = <<>>]
  /\ outcome' = [outcome EXCEPT ![p] = "none"]
  /\ info' = [info EXCEPT ![p] = NoInfo]

\* the call of slot p for text t ends on path pth with result r and cache c2
End(p, t, pth, r, c2, rec) ==
  /\ cache' = c2
  /\ last' = [rec EXCEPT !.text = t, !.path = pth, !.ret = r,
                         !.wrote = (Entries(c2) # Entries(cache)),
                         !.touched = (c2 # cache),
                         !.overlap = (\E q \in Procs \ {p} :
                                        /\ InFlight(q)
                                        /\ _make_key(text[q]) # _make_key(t)),
                         !.entryBefore = CacheGet(cache, t, now),
                         !.entry = CacheGet(c2, t, now),
                         !.at = now]
  /\ first' = IF first.path = "none" /\ pth # "propagated"
              THEN [NoCall EXCEPT !.text = t, !.path = pth, !.ret = r,
                                  !.outcome = rec.outcome, !.body = rec.body,
                                  !.at = now]
              ELSE first
  /\ firstStale' =
       \/ firstStale
       \/ /\ first.path \in {"hit", "fresh"}
          /\ now < first.ret.verified_at + TTL
          /\ CacheGet(c2, first.text, now) # first.ret
  /\ sawFail' = [q \in Procs |->
       IF q = p THEN FALSE
       ELSE IF pth = "error" /\ InFlight(q) /\ _make_key(text[q]) # _make_key(t)
       THEN TRUE ELSE sawFail[q]]
  /\ Release(p)

\* the record of a call that ends from within search
Running(p) ==
  [NoCall EXCEPT !.gets = gets[p], !.waits = waits[p], !.searched = TRUE,
                 !.sawFail = sawFail[p], !.stored = info[p].stored,
                 !.afterFirst = info[p].afterFirst,
                 !.keptFirst = info[p].keptFirst]

(***************************************************************************)
(* How verify ends after search.                                           *)
(***************************************************************************)
\* service.py 59-63: search raised err, an exception of the given kind: the
\* error result is returned and the cache is not written, unless the except
\* clause does not catch the kind
Raise(p, t, kind, err, rec) ==
  IF Catches(kind)
  THEN End(p, t, "error", _create_error_result(now), CacheAfterError(cache, t, now),
           [rec EXCEPT !.outcome = kind, !.error = err])
  ELSE End(p, t, "propagated", NoResult, CacheAfterCancel(cache, t, now),
           [rec EXCEPT !.outcome = kind, !.error = err])

\* service.py 65-89: search returned fact_checks
Fresh(p, t, fact_checks, kind, rec) ==
  End(p, t, "fresh", FreshResult(fact_checks, now),
      CacheSet(cache, t, FreshResult(fact_checks, now), now),
      [rec EXCEPT !.outcome = kind])

(***************************************************************************)
(* verify up to its first await.                                           *)
(***************************************************************************)
\* service.py 53-56: the cache holds a live entry
VerifyHit(p, t) ==
  /\ CanStart(p)
  /\ CacheGet(cache, t, now) # NoResult
  /\ calls' = calls + 1
  /\ End(p, t, "hit", HitResult(CacheGet(cache, t, now), now),
         CacheAfterGet(cache, t, now),
         [NoCall EXCEPT !.outcome = "cached",
                        !.stored = StartInfo(t).stored,
                        !.afterFirst = StartInfo(t).afterFirst,
                        !.keptFirst = StartInfo(t).keptFirst])
  /\ lastSearch' = NoSearch
  /\ UNCHANGED <<pureVars, now, api_key, firstSearch>>

\* cache miss and no API key: search returns [] at once (google_factcheck.py
\* 57-59) and verify runs to its end without suspending
VerifyDisabled(p, t) ==
  /\ CanStart(p)
  /\ CacheGet(cache, t, now) = NoResult
  /\ NoKey(api_key)
  /\ calls' = calls + 1
  /\ SearchHist(t)
  /\ Fresh(p, t, <<>>, "disabled",
           [NoCall EXCEPT !.searched = TRUE,
                          !.afterFirst = StartInfo(t).afterFirst,
                          !.keptFirst = StartInfo(t).keptFirst])
  /\ UNCHANGED <<pureVars, now, api_key>>

\* cache miss with an API key: search initialises its loop and awaits the
\* first client.get (google_factcheck.py 61-73)
VerifyQuery(p, t) ==
  /\ CanStart(p)
  /\ CacheGet(cache, t, now) = NoResult
  /\ ~NoKey(api_key)
  /\ calls' = calls + 1
  /\ SearchHist(t)
  /\ text' = [text EXCEPT ![p] = t]
  /\ attempt' = [attempt EXCEPT ![p] = 0]
  /\ backoff' = [backoff EXCEPT ![p] = INITIAL_BACKOFF]
  /\ last_error' = [last_error EXCEPT ![p] = NoError]
  /\ gets' = [gets EXCEPT ![p] = 1]
  /\ waits' = [waits EXCEPT ![p] = <<>>]
  /\ outcome' = [outcome EXCEPT ![p] = "none"]
  /\ sawFail' = [sawFail EXCEPT ![p] = FALSE]
  /\ info' = [info EXCEPT ![p] = StartInfo(t)]
  /\ pc' = [pc EXCEPT ![p] = "awaitGet"]
  /\ last' = NoCall
  /\ UNCHANGED <<pureVars, now, api_key, cache, first, firstStale>>

(***************************************************************************)
(* The response to a pending client.get arrives.                           *)
(***************************************************************************)
\* 200 with a JSON body of the expected shape: search returns the parsed list
RespondOk(p, body) ==
  /\ pc[p] = "awaitGet"
  /\ Fresh(p, text[p], _parse_response(body), "ok", [Running(p) EXCEPT !.body = body])
  /\ lastSearch' = NoSearch
  /\ UNCHANGED <<pureVars, now, api_key, calls, firstSearch>>

\* 429, 5xx, a transport error or an undecodable body: remember the error and
\* sleep for the current backoff
RespondRetry(p, kind) ==
  /\ pc[p] = "awaitGet"
  /\ Retryable(kind)
  /\ outcome' = [outcome EXCEPT ![p] = kind]
  /\ last_error' = [last_error EXCEPT ![p] =
       IF SetsLastError(kind) THEN [kind |-> kind, attempt |-> attempt[p] + 1] ELSE @]
  /\ waits' = [waits EXCEPT ![p] = Append(@, backoff[p])]
  /\ pc' = [pc EXCEPT ![p] = "awaitSleep"]
  /\ last' = NoCall /\ lastSearch' = NoSearch
  /\ UNCHANGED <<pureVars, now, api_key, cache, calls, text, attempt, backoff, gets,
                 sawFail, info, first, firstStale, firstSearch>>

\* any other outcome leaves search as an exception
RespondFail(p, kind) ==
  /\ pc[p] = "awaitGet"
  /\ kind # "ok" /\ ~Retryable(kind)
  /\ Raise(p, text[p], kind, [kind |-> kind, attempt |-> attempt[p] + 1], Running(p))
  /\ lastSearch' = NoSearch
  /\ UNCHANGED <<pureVars, now, api_key, calls, firstSearch>>

(***************************************************************************)
(* The pending asyncio.sleep ends: backoff doubles and the loop continues. *)
(***************************************************************************)
WakeRetry(p) ==
  /\ pc[p] = "awaitSleep"
  /\ HasNextAttempt(attempt[p])
  /\ backoff' = [backoff EXCEPT ![p] = NextBackoff(@)]
  /\ attempt' = [attempt EXCEPT ![p] = @ + 1]
  /\ gets' = [gets EXCEPT ![p] = @ + 1]
  /\ pc' = [pc EXCEPT ![p] = "awaitGet"]
  /\ last' = NoCall /\ lastSearch' = NoSearch
  /\ UNCHANGED <<pureVars, now, api_key, cache, calls, text, last_error, waits, outcome,
                 sawFail, info, first, firstStale, firstSearch>>

\* the loop is over (google_factcheck.py 125-128): raise last_error if there
\* is one, else return []
WakeExhausted(p) ==
  /\ pc[p] = "awaitSleep"
  /\ ~HasNextAttempt(attempt[p])
  /\ IF last_error[p] # NoError
     THEN Raise(p, text[p], outcome[p], last_error[p], Running(p))
     ELSE Fresh(p, text[p], <<>>, outcome[p], Running(p))
  /\ lastSearch' = NoSearch
  /\ UNCHANGED <<pureVars, now, api_key, calls, firstSearch>>

(***************************************************************************)
(* The environment.                                                        *)
(***************************************************************************)
\* the caller's task is cancelled at an await of search: CancelledError
\* passes through search's except clauses and reaches verify's
Cancel(p) ==
  /\ InFlight(p)
  /\ Raise(p, text[p], "cancelled", [kind |-> "cancelled", attempt |-> attempt[p] + 1],
           Running(p))
  /\ lastSearch' = NoSearch
  /\ UNCHANGED <<pureVars, now, api_key, calls, firstSearch>>

Tick ==
  /\ now < MaxTime
  /\ now' = now + 1
  /\ last' = NoCall /\ lastSearch' = NoSearch
  /\ UNCHANGED <<pureVars, api_key, cache, calls, pc, text, clientVars, callVars, first,
                 firstStale, firstSearch>>

\* Verify calls running together.  Every call is answered at its first
\* attempt, by a success or by a failure search does not retry, or is
\* cancelled; the retry loop runs under SpecSearch.
Next ==
  \/ \E p \in Procs, t \in Texts : VerifyHit(p, t)
  \/ \E p \in Procs, t \in Texts : VerifyDisabled(p, t)
  \/ \E p \in Procs, t \in Texts : VerifyQuery(p, t)
  \/ \E p \in Procs, body \in Bodies : RespondOk(p, body)
  \/ \E p \in Procs, kind \in Kinds : RespondFail(p, kind)
  \/ \E p \in Procs : Cancel(p)
  \/ Tick

Spec == Init /\ [][Next]_vars

\* One verify call at a time, with every kind of answer at every attempt.
NextSearch ==
  \/ \E t \in Texts : VerifyHit(1, t)
  \/ \E t \in Texts : VerifyDisabled(1, t)
  \/ \E t \in Texts : VerifyQuery(1, t)
  \/ \E body \in Bodies : RespondOk(1, body)
  \/ \E kind \in Kinds : RespondRetry(1, kind)
  \/ \E kind \in Kinds : RespondFail(1, kind)
  \/ WakeRetry(1)
  \/ WakeExhausted(1)
  \/ Cancel(1)
  \/ Tick

SpecSearch == Init /\ [][NextSearch]_vars

(***************************************************************************)
(* _aggregate_results on its own: one list of ratings is drawn, then       *)
(* aggregated.                                                             *)
(***************************************************************************)
\* textualRating values as the API gives them
Ratings == {
  <<"True">>, <<"False">>, <<"Disputed">>, <<"Unknown">>,
  <<"Verified">>, <<"Unverified">>, <<"Un", "-", "verified">>,
  <<"Not", " ", "verified">>, <<"Never", " ", "verified">>,
  <<"True", " ", "False">>
}

RatingLists == UNION { [1..n -> Ratings] : n \in 0..MaxSources }

InitAggregate ==
  /\ api_key = FALSE
  /\ Idle
  /\ agg \in { [NoAggregate EXCEPT !.sources = l] : l \in RatingLists }
  /\ ext = NoExtract
  /\ maxsize = MaxSize
  /\ cop = NoOp

\* status, confidence = self._aggregate_results(sources)
Aggregate ==
  /\ ~agg.done
  /\ agg' = [sources |-> agg.sources, done |-> TRUE,
             status |-> _aggregate_results(agg.sources).status,
             confidence |-> _aggregate_results(agg.sources).confidence]
  /\ UNCHANGED <<serviceVars, ext, maxsize, cop>>

NextAggregate == Aggregate

SpecAggregate == InitAggregate /\ [][NextAggregate]_vars

(***************************************************************************)
(* PatternExtractor.extract on its own: one text is drawn, then extract is *)
(* called on it, more than once.                                           *)
(***************************************************************************)
ExtractTexts == UNION { [1..n -> Tokens] : n \in 0..MaxTokens }

InitExtract ==
  /\ api_key = FALSE
  /\ Idle
  /\ agg = NoAggregate
  /\ ext \in { [NoExtract EXCEPT !.text = t] : t \in ExtractTexts }
  /\ maxsize = MaxSize
  /\ cop = NoOp

\* claims = extractor.extract(request.text)
Extract ==
  /\ ext.calls < MaxExtracts
  /\ ext' = [text |-> ext.text, calls |-> ext.calls + 1,
             claims |-> extract(ext.text, ext.calls + 1),
             previous |-> ext.claims]
  /\ UNCHANGED <<serviceVars, agg, maxsize, cop>>

NextExtract == Extract

SpecExtract == InitExtract /\ [][NextExtract]_vars

(***************************************************************************)
(* VerificationCache on its own: a cache of some maxsize takes get, set    *)
(* and clear calls in any order while the clock advances.                  *)
(***************************************************************************)
CacheTexts == Texts \cup { <<"c">> }

\* results as verify stores them
CacheResults(time) == { FreshResult(_parse_response(body), time) : body \in Bodies }

InitCache ==
  /\ api_key = FALSE
  /\ Idle
  /\ agg = NoAggregate
  /\ ext = NoExtract
  /\ maxsize \in 1..MaxCacheSize
  /\ cop = NoOp

otherVars == <<api_key, calls, pc, text, clientVars, callVars, histVars, agg, ext, maxsize>>

\* cache.get(claim_text)
CacheGetOp(claim_text) ==
  /\ cache' = CacheAfterGet(cache, claim_text, now)
  /\ cop' = [op |-> "get", text |-> claim_text,
             ret |-> CacheGet(cache, claim_text, now), before |-> cache]
  /\ UNCHANGED <<now, otherVars>>

\* cache.set(claim_text, result)
CacheSetOp(claim_text, result) ==
  /\ cache' = CacheSet(cache, claim_text, result, now)
  /\ cop' = [op |-> "set", text |-> claim_text, ret |-> result, before |-> cache]
  /\ UNCHANGED <<now, otherVars>>

\* cache.clear()
CacheClearOp ==
  /\ cache' = CacheClear(cache)
  /\ cop' = [op |-> "clear", text |-> <<>>, ret |-> NoResult, before |-> cache]
  /\ UNCHANGED <<now, otherVars>>

\* the clock of the cache advances
CacheTick ==
  /\ now < MaxTime
  /\ now' = now + 1
  /\ cop' = NoOp
  /\ UNCHANGED <<cache, otherVars>>

NextCache ==
  \/ \E t \in CacheTexts : CacheGetOp(t)
  \/ \E t \in CacheTexts : \E r \in CacheResults(now) : CacheSetOp(t, r)
  \/ CacheClearOp
  \/ CacheTick

SpecCache == InitCache /\ [][NextCache]_vars

(***************************************************************************)
(* Properties of verify.  They read the record of the call that has just   *)
(* ended (last) and of the first call that ended (first).                  *)
(***************************************************************************)
ErrorKinds == {"429", "5xx", "4xx", "transport", "badjson", "malformed"}

\* C1: when the search call of a verify call that missed the cache raises an
\* error (an HTTP error status, a transport error, an undecodable or ill-
\* shaped body, at the first attempt or after the retries are used up),
\* verify raises nothing to its caller and returns a result with status
\* "error", no sources and confidence 0.  (A cancellation of the caller's
\* task is not an error of search and is not caught.)
C1_search_error_gives_error_result ==
  (last.searched /\ last.error.kind \in ErrorKinds) =>
    /\ last.path = "error"
    /\ last.ret.status = "error"
    /\ last.ret.sources = <<>>
    /\ last.ret.confidence[1] = 0
    /\ last.ret.verified_at = last.at

\* a search that used up its attempts on transport errors ended in an error
\* result
C1_witness ==
  /\ last.path = "error"
  /\ last.gets = MAX_RETRIES
  /\ last.error.kind = "transport"
  /\ last.ret.status = "error"

C3_hit_returns_stored ==
  last.path = "hit" =>
    /\ last.stored # NoResult
    /\ last.ret = last.stored
    /\ ~last.searched
    /\ last.gets = 0
    /\ ~last.wrote
    /\ last.entry = last.stored

\* a hit at a time later than the stored result's verified_at
C3_witness ==
  /\ last.path = "hit"
  /\ last.at > last.ret.verified_at
  /\ last.ret.sources # <<>>

\* the upstream answered the call that just ended as it answered the first
\* call (or the call was served from the cache)
SameAnswer ==
  \/ last.path = "hit"
  \/ last.outcome = first.outcome /\ last.body = first.body

\* C4, as stated: a verify call for the same normalized text as an earlier
\* call, started less than a TTL after that call returned and given the same
\* upstream answer, returns what that call returned, verified_at included.
C4_as_stated ==
  (last.afterFirst /\ SameAnswer) => last.ret = first.ret

\* C4, amended: the second call returns the first call's result, verified_at
\* included, when the first call returned a result that was cached (not an
\* error result) and that entry is still the live entry of the key: less
\* than a TTL since it was stored, not evicted, not overwritten by another
\* call.
C4_second_call_returns_cached_first ==
  last.keptFirst =>
    /\ last.path = "hit"
    /\ last.ret = first.ret
    /\ last.ret.verified_at = first.at

\* the second call came later, under another spelling of the same claim
C4_witness ==
  /\ last.keptFirst
  /\ last.path = "hit"
  /\ last.at > first.at
  /\ last.text # first.text

\* C5, as stated: two search calls for the same claim text are at least a
\* TTL apart.
C5_as_stated == ~lastSearch.again

\* C5, amended: a verify call makes no search call when an earlier call for
\* the same normalized text returned a cached (non-error) result less than a
\* TTL before and that entry is still the live entry of the key.  (Calls that
\* follow an error result, or that run while the first is still in flight,
\* each make their own search call.)
C5_no_search_while_entry_live ==
  /\ \A p \in Procs : InFlight(p) => ~info[p].keptFirst
  /\ last.keptFirst => (~last.searched /\ last.gets = 0)
  /\ (lastSearch.at >= 0 /\ last.path = "none") =>
       CacheGet(cache, lastSearch.text, now) = NoResult

\* a repeat of the first call's text, served without a search call
C5_witness ==
  /\ last.keptFirst
  /\ ~last.searched
  /\ firstSearch.text = last.text
  /\ last.text = first.text
  /\ last.at > firstSearch.at

\* C6: of two verify calls for different keys that run together, the one
\* whose search succeeds returns the result built from its own answer and
\* caches it, whatever happened to the other; the one whose search fails
\* returns an error result and changes nothing in the cache.
C6_error_isolation ==
  /\ (last.path = "fresh" /\ last.sawFail) =>
       /\ last.ret.status # "error"
       /\ last.ret.sources = _parse_response(last.body)
       /\ last.ret.verified_at = last.at
       /\ last.entry = last.ret
  /\ (last.path = "error" /\ last.overlap) =>
       /\ last.ret = _create_error_result(last.at)
       /\ ~last.touched
       /\ last.entry = last.entryBefore

\* a call returned sources after a call for another key failed beside it
C6_witness ==
  /\ last.path = "fresh"
  /\ last.sawFail
  /\ last.ret.sources # <<>>
  /\ last.entry = last.ret

(***************************************************************************)
(* Properties of GoogleFactCheckClient.search.                             *)
(***************************************************************************)
RECURSIVE Pow2(_)
Pow2(n) == IF n = 0 THEN 1 ELSE 2 * Pow2(n - 1)

\* the delays of a search call are INITIAL_BACKOFF, twice that, four times
DoublingFromInitial(w) ==
  \A k \in 1..Len(w) : w[k] = INITIAL_BACKOFF * Pow2(k - 1)

\* C7: one search call makes at most 3 HTTP attempts, and it makes another
\* attempt only after an attempt that ended in a 429, a 5xx, a transport
\* error or an undecodable body.
C7_at_most_three_attempts ==
  /\ \A p \in Procs : gets[p] <= 3 /\ attempt[p] < 3
  /\ last.gets <= 3
  /\ \A p \in Procs :
       (pc[p] = "awaitGet" /\ gets[p] > 1) =>
          outcome[p] \in {"429", "5xx", "transport", "badjson"}
  /\ last.outcome \in {"ok", "4xx", "malformed"} =>
       Len(last.waits) = last.gets - 1

\* the third attempt of a call is pending, the second ended in a 5xx
C7_witness ==
  /\ pc[1] = "awaitGet"
  /\ gets[1] = 3
  /\ outcome[1] = "5xx"

\* C8: a 4xx status other than 429 ends the search call at the attempt that
\* got it, at the first as at the last: search raises that error at once,
\* with no sleep and no further attempt, and verify returns an error result.
C8_client_error_raises_at_once ==
  /\ last.outcome = "4xx" =>
       /\ last.path = "error"
       /\ last.error = [kind |-> "4xx", attempt |-> last.gets]
       /\ Len(last.waits) = last.gets - 1
  /\ \A p \in Procs : InFlight(p) => outcome[p] # "4xx"

\* a 4xx at the second attempt, after one sleep
C8_witness ==
  /\ last.outcome = "4xx"
  /\ last.gets = 2
  /\ last.waits = <<INITIAL_BACKOFF>>
  /\ last.path = "error"

\* C9: a search call whose every attempt failed in a retried way raises the
\* error of its last attempt, and a search call with an API key returns the
\* empty list only for a successful response without claims.
C9_exhausted_raises_last_error ==
  /\ \A p \in Procs :
       pc[p] = "awaitSleep" =>
         last_error[p] = [kind |-> outcome[p], attempt |-> gets[p]]
  /\ (last.gets = MAX_RETRIES /\ last.outcome \in {"429", "5xx", "transport", "badjson"}) =>
       /\ last.path = "error"
       /\ last.error = [kind |-> last.outcome, attempt |-> MAX_RETRIES]
       /\ Len(last.waits) = MAX_RETRIES
  /\ (last.searched /\ last.path = "fresh" /\ last.ret.sources = <<>>) =>
       \/ last.outcome = "disabled"
       \/ last.outcome = "ok" /\ _parse_response(last.body) = <<>>

\* three attempts, each answered 429, ended in the error of the third
C9_witness ==
  /\ last.gets = MAX_RETRIES
  /\ last.outcome = "429"
  /\ last.error = [kind |-> "429", attempt |-> MAX_RETRIES]
  /\ last.path = "error"

\* C10: the k-th sleep of a search call lasts INITIAL_BACKOFF * 2^(k-1)
\* seconds, that is 1, 2, 4, and there is one sleep per failed attempt of a
\* retried kind.
C10_backoff_doubles ==
  /\ \A p \in Procs :
       /\ DoublingFromInitial(waits[p])
       /\ pc[p] = "awaitGet" => (Len(waits[p]) = gets[p] - 1 /\ backoff[p] = Pow2(Len(waits[p])))
       /\ pc[p] = "awaitSleep" => Len(waits[p]) = gets[p]
  /\ DoublingFromInitial(last.waits)
  /\ Len(last.waits) <= MAX_RETRIES

\* a call that slept 1, 2 and 4 seconds
C10_witness == last.waits = <<1, 2, 4>>

\* C11: without an API key search returns the empty list at once: verify
\* ends in the step it started in, with no source, no error, no client.get
\* call and no sleep, and no coroutine is ever left waiting for a response.
C11_no_key_returns_empty ==
  ~api_key =>
    /\ \A p \in Procs : pc[p] = "idle" /\ gets[p] = 0 /\ waits[p] = <<>>
    /\ lastSearch.at >= 0 =>
         /\ last.path = "fresh"
         /\ last.searched
         /\ last.outcome = "disabled"
         /\ last.error = NoError
         /\ last.ret.sources = <<>>
         /\ last.gets = 0
         /\ last.waits = <<>>

\* a search made without a key has just returned
C11_witness ==
  /\ ~api_key
  /\ lastSearch.at >= 0
  /\ last.outcome = "disabled"
  /\ last.ret.status = "unverified"

(***************************************************************************)
(* Properties of _aggregate_results.  The ratings of Ratings are sorted by *)
(* what a reader takes them to say, without the patterns.                  *)
(***************************************************************************)
AffirmingRatings == { <<"True">>, <<"Verified">>, <<"True", " ", "False">> }
DisputingRatings == { <<"False">>, <<"Disputed">> }
NegatedRatings ==
  { <<"Unverified">>, <<"Un", "-", "verified">>, <<"Not", " ", "verified">>,
    <<"Never", " ", "verified">> }

CountIn(l, S) == Cardinality({ i \in 1..Len(l) : l[i] \in S })

\* the confidence c is the number n / d
IsFraction(c, n, d) == c[2] > 0 /\ d > 0 /\ c[1] * d = n * c[2]

\* C12: for N sources of which a are affirming and d disputing, a # d, the
\* confidence is max(a, d) / N, the status verified when a > d and disputed
\* when d > a; True, False, True give verified with 2/3 and one Disputed
\* gives disputed with 1.
C12_majority_confidence ==
  LET N == Len(agg.sources)
      a == CountIn(agg.sources, AffirmingRatings)
      d == CountIn(agg.sources, DisputingRatings)
  IN  agg.done =>
        /\ a # d =>
             /\ IsFraction(agg.confidence, Max(a, d), N)
             /\ agg.status = IF a > d THEN "verified" ELSE "disputed"
        /\ agg.sources = << <<"True">>, <<"False">>, <<"True">> >> =>
             agg.status = "verified" /\ IsFraction(agg.confidence, 2, 3)
        /\ agg.sources = << <<"Disputed">> >> =>
             agg.status = "disputed" /\ IsFraction(agg.confidence, 1, 1)

\* two affirming ratings against one disputing were aggregated
C12_witness ==
  /\ agg.done
  /\ agg.sources = << <<"True">>, <<"False">>, <<"True">> >>
  /\ agg.status = "verified"
  /\ agg.confidence = <<2, 3>>

\* C13, as stated: whenever the list is not empty and one rating at least is
\* classified, the confidence is max(a, d) / N; in the other cases it is a
\* low constant (0.0 or 0.3, whichever the sentence means).
C13_as_stated ==
  LET N == Len(agg.sources)
      a == CountIn(agg.sources, AffirmingRatings)
      d == CountIn(agg.sources, DisputingRatings)
  IN  agg.done =>
        IF N > 0 /\ a + d > 0
        THEN IsFraction(agg.confidence, Max(a, d), N)
        ELSE agg.confidence \in { <<0, 10>>, <<3, 10>> }

\* C13, amended: the confidence is max(a, d) / N when the affirming and the
\* disputing counts differ; it is 0.0 for no source, 0.3 for sources none of
\* which is classified, and 0.5 for equal nonzero counts, whatever N is.
C13_confidence_by_case ==
  LET N == Len(agg.sources)
      a == CountIn(agg.sources, AffirmingRatings)
      d == CountIn(agg.sources, DisputingRatings)
  IN  agg.done =>
        agg.confidence =
          IF N = 0 THEN <<0, 10>>
          ELSE IF a + d = 0 THEN <<3, 10>>
          ELSE IF a = d THEN <<5, 10>>
          ELSE <<Max(a, d), N>>

\* one affirming, one disputing and one unclassified rating: 0.5, not 1/3
C13_witness ==
  /\ agg.done
  /\ agg.sources = << <<"True">>, <<"False">>, <<"Unknown">> >>
  /\ agg.confidence = <<5, 10>>

\* C14: the status is unverified in three cases and no other: no source
\* (confidence 0.0), sources none of which is classified (0.3), equal nonzero
\* affirming and disputing counts (0.5, whatever else the list holds).
C14_unverified_cases ==
  LET N == Len(agg.sources)
      a == CountIn(agg.sources, AffirmingRatings)
      d == CountIn(agg.sources, DisputingRatings)
  IN  agg.done =>
        /\ agg.status = "unverified" <=> (N = 0 \/ a + d = 0 \/ a = d)
        /\ agg.status \in {"unverified", "verified", "disputed"}
        /\ N = 0 => (agg.status = "unverified" /\ IsFraction(agg.confidence, 0, 1))
        /\ (N > 0 /\ a + d = 0) =>
             (agg.status = "unverified" /\ IsFraction(agg.confidence, 3, 10))
        /\ (a = d /\ a > 0) =>
             (agg.status = "unverified" /\ IsFraction(agg.confidence, 5, 10))

\* a tie beside an unclassified rating
C14_witness ==
  /\ agg.done
  /\ agg.sources = << <<"Unverified">>, <<"Disputed">>, <<"Verified">> >>
  /\ agg.status = "unverified"
  /\ agg.confidence = <<5, 10>>

\* C15: unverified, un-verified, not verified and never verified count
\* neither as affirming nor as disputing, and the word verified on its own
\* counts as affirming: a list of such ratings is aggregated as its Verified
\* entries alone decide.
C15_negated_forms_unclassified ==
  LET N == Len(agg.sources)
      v == CountIn(agg.sources, { <<"Verified">> })
  IN  /\ \A i \in 1..N :
           /\ agg.sources[i] \in NegatedRatings =>
                /\ ~TRUE_PATTERNS(LowerRating(agg.sources[i]))
                /\ ~FALSE_PATTERNS(LowerRating(agg.sources[i]))
           /\ agg.sources[i] = <<"Verified">> =>
                TRUE_PATTERNS(LowerRating(agg.sources[i]))
      /\ (agg.done /\ N > 0 /\
          \A i \in 1..N : agg.sources[i] \in NegatedRatings \cup { <<"Verified">> }) =>
           IF v = 0
           THEN agg.status = "unverified" /\ agg.confidence = <<3, 10>>
           ELSE agg.status = "verified" /\ IsFraction(agg.confidence, v, N)

\* one Verified among negated forms
C15_witness ==
  /\ agg.done
  /\ agg.sources = << <<"Not", " ", "verified">>, <<"Verified">>, <<"Un", "-", "verified">> >>
  /\ agg.status = "verified"
  /\ agg.confidence = <<1, 3>>

(***************************************************************************)
(* Properties of PatternExtractor.extract.                                 *)
(***************************************************************************)
\* the length of the slice text[start:end] of a claim's span
SpanLen(claim) == claim.source_offset.end - claim.source_offset.start

\* the characters two spans share
SharedLen(c1, c2) ==
  LET lo == IF c1.source_offset.start >= c2.source_offset.start
            THEN c1.source_offset.start ELSE c2.source_offset.start
      hi == IF c1.source_offset.end <= c2.source_offset.end
            THEN c1.source_offset.end ELSE c2.source_offset.end
  IN  IF hi > lo THEN hi - lo ELSE 0

\* C16, as stated: the slice of the text under the span of every returned
\* claim is not empty, is 10 to 500 characters long and contains the match
\* the claim was made from.
C16_as_stated ==
  \A i \in 1..Len(ext.claims) :
    LET claim == ext.claims[i]
    IN  /\ SpanLen(claim) > 0
        /\ SpanLen(claim) >= MIN_SENTENCE
        /\ SpanLen(claim) <= MAX_SENTENCE
        /\ claim.source_offset.start <= claim.match.start
        /\ claim.match.end <= claim.source_offset.end
        /\ claim.source_offset.end <= CharLen(ext.text)

\* C17: no two claims of one extract call have spans that share more than
\* half of the length of the shorter span.
C17_no_large_overlap ==
  \A i, j \in 1..Len(ext.claims) :
    i < j =>
      LET shorter == IF SpanLen(ext.claims[i]) <= SpanLen(ext.claims[j])
                     THEN SpanLen(ext.claims[i]) ELSE SpanLen(ext.claims[j])
      IN  2 * SharedLen(ext.claims[i], ext.claims[j]) <= shorter

\* a year match that runs over a newline gives a sentence that contains the
\* sentence of the match after it; one claim is returned
C17_witness ==
  /\ ext.calls >= 1
  /\ ext.text = <<"in", "\n", "2024", " ", "outperforms">>
  /\ Len(_matches_to_claims(ext.text, AllMatches(ext.text), 1)) = 2
  /\ Len(ext.claims) = 1
  /\ ext.claims[1].source_offset = [start |-> 0, end |-> 19]

\* a claim without its id
WithoutId(claim) ==
  [text |-> claim.text, type |-> claim.type, confidence |-> claim.confidence,
   source_offset |-> claim.source_offset]

WithoutIds(claims) == [i \in 1..Len(claims) |-> WithoutId(claims[i])]

C19_distinct_texts ==
  /\ \A i, j \in 1..Len(ext.claims) :
       i # j => ext.claims[i].text # ext.claims[j].text
  /\ (ext.calls >= 1 /\ ext.text = <<"outperforms", " ", "in", " ", "2024">>) =>
       (Len(ext.claims) = 1 /\ ext.claims[1].type = "temporal")

\* the same sentence on two lines gave one claim, the first
C19_witness ==
  /\ ext.calls >= 1
  /\ ext.text = <<"outperforms", "\n", "outperforms">>
  /\ Len(AllMatches(ext.text)) = 2
  /\ Len(ext.claims) = 1
  /\ ext.claims[1].text = <<"outperforms">>

\* C20: a cache entry expires a fixed TTL after its insertion.  Every entry
\* of the cache carries the expiry "insertion time + TTL", the insertion time
\* being the verified_at of the result stored; get answers None for a text
\* whose entry was inserted a TTL or more ago; and a hit is answered less than
\* a TTL after the insertion and leaves the expiry of the entry it found
\* where it was.
C20_fixed_ttl_from_insertion ==
  /\ \A i \in 1..Len(cache) :
       cache[i].expires = cache[i].value.verified_at + TTL
  /\ \A i \in 1..Len(cache), t \in Texts :
       (_make_key(t) = cache[i].key /\ now >= cache[i].value.verified_at + TTL)
         => CacheGet(cache, t, now) = NoResult
  /\ last.path = "hit" =>
       /\ last.at < last.ret.verified_at + TTL
       /\ \E i \in 1..Len(cache) :
            /\ cache[i].key = _make_key(last.text)
            /\ cache[i].value = last.ret
            /\ cache[i].expires = last.ret.verified_at + TTL

\* the first call stored its result; the second call added no entry to the
\* cache and so, no call overlapping another without an API key, was a hit on
\* it; now, a TTL after the insertion, the entry is still linked and get
\* answers None for its text
C20_witness ==
  /\ ~api_key /\ calls = 2 /\ Len(cache) = 1
  /\ first.path = "fresh"
  /\ now >= first.at + TTL
  /\ \E i \in 1..Len(cache) :
       /\ cache[i].key = _make_key(first.text)
       /\ cache[i].value = first.ret
       /\ cache[i].value.verified_at = first.at
  /\ CacheGet(cache, first.text, now) = NoResult

(***************************************************************************)
(* Properties of the cache driven on its own (SpecCache).                  *)
(***************************************************************************)
\* the entries of c that get can still answer at the time
Live(c, time) == Expire(c, time)

\* the entries of c other than the one of key k, in their order
Others(c, k) == SelectSeq(c, LAMBDA e : e.key # k)

\* C21: after any sequence of get, set and clear the cache never holds more
\* than maxsize entries.  A set of a new key into a cache that holds maxsize
\* live entries removes exactly one of them, the first of the order of use,
\* and keeps the others and the new entry; the order of use is the order of
\* the latest set or hit of each key: a set and a hit move the key to the
\* end and leave the other keys in their order.  After clear the cache is
\* empty.
C21_bounded_lru_eviction ==
  /\ Len(cache) <= maxsize
  /\ \A i, j \in 1..Len(cache) : cache[i].key = cache[j].key => i = j
  /\ (cop.op = "set" /\ ~Contains(cop.before, _make_key(cop.text), now)
        /\ Len(Live(cop.before, now)) = maxsize) =>
       cache = Append(Tail(Live(cop.before, now)),
                      [key |-> _make_key(cop.text), value |-> cop.ret,
                       expires |-> now + TTL])
  /\ cop.op = "set" =>
       /\ cache[Len(cache)].key = _make_key(cop.text)
       /\ CacheGet(cache, cop.text, now) = cop.ret
       /\ Len(Live(cop.before, now)) < maxsize =>
            Others(cache, _make_key(cop.text))
              = Others(Live(cop.before, now), _make_key(cop.text))
  /\ (cop.op = "get" /\ cop.ret # NoResult) =>
       /\ cache[Len(cache)].key = _make_key(cop.text)
       /\ cache[Len(cache)].value = cop.ret
       /\ Others(cache, _make_key(cop.text)) = Others(cop.before, _make_key(cop.text))
       /\ Entries(cache) = Entries(cop.before)
  /\ (cop.op = "get" /\ cop.ret = NoResult) => cache = cop.before
  /\ cop.op = "clear" => cache = <<>>

\* a set of a new key into a full cache of two live entries of which the one
\* inserted first was used last: the entry inserted later is the one removed
C21_witness ==
  /\ cop.op = "set"
  /\ maxsize = 2
  /\ Len(cop.before) = 2 /\ Live(cop.before, now) = cop.before
  /\ ~Contains(cop.before, _make_key(cop.text), now)
  /\ cop.before[2].value.verified_at < cop.before[1].value.verified_at
  /\ cache[1] = cop.before[2]
  /\ cache[2].key = _make_key(cop.text)

(***************************************************************************)
(* Further properties of verify.                                           *)
(***************************************************************************)
\* claim_text.strip().lower()
Normalized(claim_text) == Lower(Strip(claim_text))

\* C22: cache keys depend only on the normalized (trimmed, lower-cased)
\* claim text.  At every time get answers two texts of the same normal form
\* alike; right after a verify call stored its result, get answers that
\* result for every text of the same normal form; a verify call that starts
\* after the first call stored a result for the same normal form, while
\* that entry is live and in the cache, is a hit that returns that result
\* and makes no search call and no request; and a hit is answered from the
\* entry whose key is the digest of the normal form of the call's text.
C22_key_is_normalized_text ==
  /\ \A x, y \in Texts :
       Normalized(x) = Normalized(y) => CacheGet(cache, x, now) = CacheGet(cache, y, now)
  /\ last.path = "fresh" =>
       \A x \in Texts :
         Normalized(x) = Normalized(last.text) => CacheGet(cache, x, now) = last.ret
  /\ last.keptFirst =>
       /\ Normalized(last.text) = Normalized(first.text)
       /\ last.path = "hit"
       /\ last.ret = first.ret
       /\ ~last.searched
       /\ last.gets = 0
  /\ last.path = "hit" =>
       \E i \in 1..Len(cache) :
         /\ cache[i].key = Digest(Normalized(last.text))
         /\ cache[i].value = last.ret

\* verify of one spelling stored a result and verify of another spelling of
\* the same normal form was a hit on it, without a search call
C22_witness ==
  /\ first.path = "fresh"
  /\ last.path = "hit"
  /\ last.text # first.text
  /\ Normalized(last.text) = Normalized(first.text)
  /\ Strip(last.text) # Strip(first.text)
  /\ last.ret = first.ret
  /\ ~last.searched

\* one verify call at a time: the first search call was abandoned and the
\* second call, for another spelling or another text, has just returned
AfterAbandoned ==
  /\ calls = 2
  /\ firstSearch # NoSearch
  /\ last.path \in {"fresh", "error"}
  /\ first.text = last.text /\ first.at = last.at /\ first.ret = last.ret
  /\ firstSearch.text # last.text

\* C23: a verify call abandoned by its caller while search awaits a
\* response or a backoff sleep returns nothing and leaves the cache as it
\* was: same entries, same expiries, same order (its own cache.get was a
\* miss).  As long as no call has returned a result the cache is as
\* constructed, and the call made after an abandoned call runs as the first
\* call of a service does: it misses the cache, calls search and, when
\* search answers, returns and stores the result made of that answer.
C23_abandoned_call_leaves_no_trace ==
  /\ last.outcome = "cancelled" =>
       /\ last.path = "propagated"
       /\ last.ret = NoResult
       /\ last.stored = NoResult
       /\ ~last.touched
       /\ ~last.wrote
       /\ last.entry = last.entryBefore
  /\ first.path = "none" => cache = <<>>
  /\ AfterAbandoned =>
       /\ last.stored = NoResult
       /\ last.searched
       /\ last.gets >= 1
       /\ last.path = "fresh" =>
            /\ last.ret = FreshResult(_parse_response(last.body), last.at)
            /\ cache = <<[key |-> _make_key(last.text), value |-> last.ret,
                          expires |-> last.at + TTL]>>
       /\ last.path = "error" => cache = <<>>

\* a call is abandoned during its second backoff sleep while the cache
\* holds the live result of an earlier call for another text
C23_witness ==
  /\ last.outcome = "cancelled"
  /\ Len(last.waits) = 2
  /\ last.gets = Len(last.waits)
  /\ first.path = "fresh"
  /\ CacheGet(cache, first.text, now) = first.ret
  /\ _make_key(last.text) # _make_key(first.text)

(***************************************************************************)
(* Further properties of extract.                                          *)
(***************************************************************************)
\* the keys of PATTERNS in the order of the dict
ClaimTypes == <<"statistical", "temporal", "factual", "attribution", "comparative">>

Rank(claim_type) == CHOOSE r \in 1..Len(ClaimTypes) : ClaimTypes[r] = claim_type

\* the stripped sentence around a match
MatchSentence(txt, match) ==
  Sentence(txt, _find_sentence_start(txt, match.start),
           _find_sentence_end(txt, match.end))

\* category first, then position in the text (the model has one rule in
\* each of its categories)
InScanOrder(matches) ==
  \A i, j \in 1..Len(matches) :
    i < j =>
      \/ Rank(matches[i].claim_type) < Rank(matches[j].claim_type)
      \/ /\ matches[i].claim_type = matches[j].claim_type
         /\ matches[i].start < matches[j].start

\* the first of the matches whose sentence is the given one, 0 if none
FirstMatchOf(txt, matches, sentence) ==
  IF \E k \in 1..Len(matches) : MatchSentence(txt, matches[k]) = sentence
  THEN CHOOSE k \in 1..Len(matches) :
         /\ MatchSentence(txt, matches[k]) = sentence
         /\ \A j \in 1..(k - 1) : MatchSentence(txt, matches[j]) # sentence
  ELSE 0

\* C24: the matches are scanned category by category in the order
\* statistical, temporal, factual, attribution, comparative, and by position
\* in the text within a rule; every returned claim has the type of the first
\* match in that order whose stripped sentence is the claim's text, whatever
\* matches of the same sentence come later and wherever they are in the
\* text.
C24_type_of_first_match ==
  ext.calls >= 1 =>
    /\ InScanOrder(AllMatches(ext.text))
    /\ \A i \in 1..Len(ext.claims) :
         LET matches == AllMatches(ext.text)
             k == FirstMatchOf(ext.text, matches, ext.claims[i].text)
         IN  /\ k > 0
             /\ ext.claims[i].type = matches[k].claim_type
             /\ ext.claims[i].match = matches[k]

\* a returned claim is temporal although a comparative match of the same
\* sentence stands before the year match in the text
C24_witness ==
  /\ ext.calls >= 1
  /\ \E i \in 1..Len(ext.claims) :
       \E k \in 1..Len(AllMatches(ext.text)) :
         LET match == AllMatches(ext.text)[k]
         IN  /\ MatchSentence(ext.text, match) = ext.claims[i].text
             /\ match.claim_type = "comparative"
             /\ ext.claims[i].type = "temporal"
             /\ match.start < ext.claims[i].match.start

(***************************************************************************)
(* Further properties of search.                                           *)
(***************************************************************************)
\* C25, as stated: every backoff sleep of a search call is followed by a
\* further request, so a call that has run to its end has slept once less
\* than it has made requests, and a call of MAX_RETRIES requests has slept
\* INITIAL_BACKOFF and twice that and not after its last request.
C25_as_stated ==
  (last.searched /\ last.path \in {"fresh", "error"}) =>
    /\ Len(last.waits) = Max(last.gets - 1, 0)
    /\ last.gets = MAX_RETRIES => last.waits = <<INITIAL_BACKOFF, 2 * INITIAL_BACKOFF>>

(***************************************************************************)
(* Concurrent verify calls for one claim text.                             *)
(***************************************************************************)
\* the call that just returned ran together with the first call that
\* returned: both missed the cache for the same text, both were answered by
\* the API, and this one started before the other one had returned (it
\* found no entry although the other's result is not a TTL old)
BothQueried ==
  /\ first.path = "fresh" /\ first.outcome = "ok"
  /\ last.path = "fresh" /\ last.outcome = "ok"
  /\ last.text = first.text
  /\ last.stored = NoResult /\ ~last.afterFirst
  /\ last.at < first.at + TTL
  /\ calls >= 2

\* C26: verify calls for one uncached text that run together each query the
\* API.  When a call returns a fresh result the cache holds one entry for
\* the key and it is the whole result that call returned; so once two such
\* calls have both returned, the cache holds the result of the one that
\* returned last, the entry of the other one is replaced, and no entry is
\* a mixture of the two.
C26_last_writer_wins ==
  /\ last.path = "fresh" =>
       /\ Cardinality({ i \in 1..Len(cache) : cache[i].key = _make_key(last.text) }) = 1
       /\ CacheGet(cache, last.text, now) = last.ret
  /\ BothQueried =>
       /\ last.searched /\ last.gets >= 1
       /\ \A i \in 1..Len(cache) :
            cache[i].key = _make_key(first.text) =>
              /\ cache[i].value = last.ret
              /\ cache[i].value \in {first.ret, last.ret}
              /\ cache[i].expires = last.at + TTL
  /\ \A i \in 1..Len(cache) :
       /\ cache[i].value.status \in {"verified", "disputed", "unverified"}
       /\ cache[i].value = FreshResult(cache[i].value.sources, cache[i].value.verified_at)

\* two calls for the same text ran together and were answered differently;
\* the second to return replaced the entry of the first
C26_witness ==
  /\ BothQueried
  /\ calls = 2
  /\ first.ret # last.ret
  /\ first.body # last.body
  /\ first.at < last.at
  /\ CacheGet(cache, first.text, now) = last.ret

\* an offset at which a token of the text starts, or the length of the text
IsTokenStart(txt, pos) == \E i \in 1..(Len(txt) + 1) : CharStart(txt, i) = pos

\* C27: the span of every returned claim lies within the text and is not
\* empty; it starts at the start of the text or right after a sentence
\* terminator, the nearest one before the match; it ends at the end of the
\* text or right after a terminator, the first one at or after the end of
\* the match; and the claim's text is the slice of the text under the span
\* without its leading and trailing whitespace.
C27_span_is_the_sentence ==
  \A n \in 1..Len(ext.claims) :
    LET claim == ext.claims[n]
        start == claim.source_offset.start
        end == claim.source_offset.end
        i == TokenAt(ext.text, start)
        j == TokenAt(ext.text, end)
        mi == TokenAt(ext.text, claim.match.start)
        mj == TokenAt(ext.text, claim.match.end)
    IN  /\ 0 <= start /\ start < end /\ end <= CharLen(ext.text)
        /\ IsTokenStart(ext.text, start) /\ IsTokenStart(ext.text, end)
        /\ i = 1 \/ IsEnding(ext.text[i - 1])
        /\ \A k \in i..(mi - 1) : ~IsEnding(ext.text[k])
        /\ j = Len(ext.text) + 1 \/ IsEnding(ext.text[j - 1])
        /\ \A k \in mj..(j - 2) : ~IsEnding(ext.text[k])
        /\ claim.text = RStripToks(LStripToks(SubSeq(ext.text, i, j - 1)))

\* a claim in the middle of the text: its span starts after a full stop,
\* ends with the next full stop, which the claim's text keeps, and starts
\* with whitespace, which the claim's text does not have
C27_witness ==
  \E n \in 1..Len(ext.claims) :
    LET claim == ext.claims[n]
        i == TokenAt(ext.text, claim.source_offset.start)
        j == TokenAt(ext.text, claim.source_offset.end)
    IN  /\ claim.source_offset.start > 0
        /\ claim.source_offset.end < CharLen(ext.text)
        /\ ext.text[i - 1] = "."
        /\ ext.text[j - 1] = "."
        /\ IsSpaceTok(ext.text[i])
        /\ claim.text[Len(claim.text)] = "."
        /\ CharLen(claim.text) < SpanLen(claim)
        /\ claim.source_offset.start < claim.match.start

\* the sentence of the k-th match as a claim would carry it
Candidate(txt, matches, k) ==
  LET sentence_start == _find_sentence_start(txt, matches[k].start)
      sentence_end == _find_sentence_end(txt, matches[k].end)
  IN  [text |-> Sentence(txt, sentence_start, sentence_end),
       source_offset |-> [start |-> sentence_start, end |-> sentence_end],
       index |-> k]

\* the k-th match is the first match of its sentence and the sentence has
\* an accepted length
IsCandidate(txt, matches, k) ==
  /\ ~TooShortOrLong(Candidate(txt, matches, k).text)
  /\ \A j \in 1..(k - 1) : MatchSentence(txt, matches[j]) # MatchSentence(txt, matches[k])

\* the claim was made from the candidate (the id of a claim ends with the
\* number of its match)
MadeFrom(claim, cand) ==
  /\ claim.text = cand.text
  /\ claim.source_offset = cand.source_offset
  /\ claim.id[2] = cand.index

\* more than half of the shorter span is shared
OverHalf(c1, c2) ==
  2 * SharedLen(c1, c2) > (IF SpanLen(c1) <= SpanLen(c2) THEN SpanLen(c1) ELSE SpanLen(c2))

\* c1 comes before c2 when the claims are sorted by start, ties in the
\* order of the matches
Before(claim, cand) ==
  \/ claim.source_offset.start < cand.source_offset.start
  \/ /\ claim.source_offset.start = cand.source_offset.start
     /\ claim.id[2] < cand.index

\* C28: the returned claims are in non-decreasing order of span start.  Each
\* is made from a candidate, a first match of a sentence of accepted length.
\* A candidate that is not returned shares more than half of the shorter
\* span with a returned claim that comes before it in the sorted order; a
\* candidate that no earlier returned claim overlaps in this way is
\* returned.
C28_greedy_in_start_order ==
  ext.calls >= 1 =>
    LET matches == AllMatches(ext.text)
        cands == { k \in 1..Len(matches) : IsCandidate(ext.text, matches, k) }
        returned(k) == \E n \in 1..Len(ext.claims) :
                         MadeFrom(ext.claims[n], Candidate(ext.text, matches, k))
    IN  /\ \A m, n \in 1..Len(ext.claims) :
             m < n => /\ ext.claims[m].source_offset.start <= ext.claims[n].source_offset.start
                      /\ Before(ext.claims[m], [source_offset |-> ext.claims[n].source_offset,
                                                index |-> ext.claims[n].id[2]])
        /\ \A n \in 1..Len(ext.claims) :
             \E k \in cands : MadeFrom(ext.claims[n], Candidate(ext.text, matches, k))
        /\ \A k \in cands :
             ~returned(k) <=>
               \E n \in 1..Len(ext.claims) :
                 /\ OverHalf(ext.claims[n], Candidate(ext.text, matches, k))
                 /\ Before(ext.claims[n], Candidate(ext.text, matches, k))

\* two candidates of different texts: the one of the earlier start is
\* returned and the other, more than half of which lies within it, is not
C28_witness ==
  /\ ext.calls >= 1
  /\ Len(ext.claims) = 1
  /\ \E k \in 1..Len(AllMatches(ext.text)) :
       LET cand == Candidate(ext.text, AllMatches(ext.text), k)
       IN  /\ IsCandidate(ext.text, AllMatches(ext.text), k)
           /\ ~MadeFrom(ext.claims[1], cand)
           /\ cand.text # ext.claims[1].text
           /\ cand.source_offset.start > ext.claims[1].source_offset.start
           /\ OverHalf(ext.claims[1], cand)

(***************************************************************************)
(* Further properties of _aggregate_results.                               *)
(***************************************************************************)
\* the rating matches an affirming and a disputing pattern
MatchesBoth(rating) ==
  TRUE_PATTERNS(LowerRating(rating)) /\ FALSE_PATTERNS(LowerRating(rating))

\* C29: every source adds one to the affirming count, or one to the
\* disputing count, or nothing, so the two counts together are at most the
\* number of sources and the confidence is between 0 and 1.  A rating that
\* matches an affirming and a disputing pattern adds to the affirming count
\* only: the list is aggregated as if that rating were True.
C29_counted_once_affirming_first ==
  LET N == Len(agg.sources)
      both == { i \in 1..N : MatchesBoth(agg.sources[i]) }
      a == Cardinality({ i \in 1..N : TRUE_PATTERNS(LowerRating(agg.sources[i])) })
      d == Cardinality({ i \in 1..N : /\ FALSE_PATTERNS(LowerRating(agg.sources[i]))
                                      /\ i \notin both })
      asTrue == [i \in 1..N |-> IF i \in both THEN <<"True">> ELSE agg.sources[i]]
  IN  /\ \A i \in 1..N :
           /\ true_count(<<agg.sources[i]>>) + false_count(<<agg.sources[i]>>) <= 1
           /\ i \in both => /\ true_count(<<agg.sources[i]>>) = 1
                             /\ false_count(<<agg.sources[i]>>) = 0
      /\ true_count(agg.sources) = a
      /\ false_count(agg.sources) = d
      /\ a + d <= N
      /\ agg.done =>
           /\ 0 <= agg.confidence[1]
           /\ agg.confidence[2] > 0
           /\ agg.confidence[1] <= agg.confidence[2]
           /\ agg.status = _aggregate_results(asTrue).status
           /\ agg.confidence = _aggregate_results(asTrue).confidence
           /\ agg.status = (IF a > d THEN "verified"
                             ELSE IF d > a THEN "disputed" ELSE "unverified")

\* two ratings with both words outvote one False
C29_witness ==
  /\ agg.done
  /\ agg.sources = << <<"True", " ", "False">>, <<"False">>, <<"True", " ", "False">> >>
  /\ MatchesBoth(agg.sources[1])
  /\ agg.status = "verified"
  /\ agg.confidence = <<2, 3>>

====
